---- MODULE Spec2Model ----
(***************************************************************************)
(* The connection management API of promptflow's local service            *)
(* (_sdk/_service/apis/connection.py): the handlers ConnectionList.get,    *)
(* Connection.get/post/put/delete, ConnectionWithSecret.get and            *)
(* ConnectionSpecs.get over the connection store.                          *)
(*                                                                         *)
(* The handlers are translated from connection.py.  ConnectionOperations,  *)
(* _Connection and promptflow._sdk.schemas._connection are imported by     *)
(* that file; they are modelled from the design document.                  *)
(***************************************************************************)
EXTENDS Integers, Sequences, FiniteSets, TLC

\* ------------------------------------------------------------------ bounds

\* The clock stops the model after this many successful writes.
MaxClock == 3

\* The largest max_results a list request asks for.
MaxResults == 2

\* ------------------------------------------------------------- dictionaries

EmptyDict == [k \in {} |-> ""]

Restrict(f, S) == [k \in (DOMAIN f) \cap S |-> f[k]]

\* {**g, **f}: the entries of f win.
Overlay(f, g) == [k \in (DOMAIN f) \cup (DOMAIN g) |-> IF k \in DOMAIN f THEN f[k] ELSE g[k]]

Range(s) == {s[i] : i \in DOMAIN s}

\* ------------------------------------------- promptflow._sdk.schemas._connection

\* One declared marshmallow field, with the attributes ConnectionSpecs.get reads
\* and the secrecy / requiredness the entity loader uses.
Field(name, secret, required, dump_only, allow_none, has_default, default, allowed_values) ==
    [name |-> name, secret |-> secret, required |-> required, dump_only |-> dump_only,
     allow_none |-> allow_none, has_default |-> has_default, default |-> default,
     allowed_values |-> allowed_values]

PlainField(name, required, allow_none) ==
    Field(name, FALSE, required, FALSE, allow_none, FALSE, "", <<>>)

DefaultField(name, default) ==
    Field(name, FALSE, FALSE, FALSE, FALSE, TRUE, default, <<>>)

SecretField(name) ==
    Field(name, TRUE, TRUE, FALSE, FALSE, FALSE, "", <<>>)

DumpOnlyField(name) ==
    Field(name, FALSE, FALSE, TRUE, FALSE, FALSE, "", <<>>)

TypeField(value) ==
    Field("type", FALSE, TRUE, FALSE, FALSE, FALSE, "", <<value>>)

\* The fields every connection schema inherits from ConnectionSchema.
BaseFields ==
    << PlainField("name", FALSE, FALSE),
       DefaultField("module", "promptflow.connections"),
       DumpOnlyField("created_date"),
       DumpOnlyField("last_modified_date"),
       DumpOnlyField("expiry_time") >>

AzureOpenAIFields ==
    BaseFields \o
    << TypeField("azure_open_ai"),
       SecretField("api_key"),
       PlainField("api_base", TRUE, FALSE),
       DefaultField("api_type", "azure") >>

OpenAIFields ==
    BaseFields \o
    << TypeField("open_ai"),
       SecretField("api_key"),
       PlainField("organization", FALSE, TRUE) >>

\* A member of the schema module as inspect.getmembers sees it: its name (split
\* into words, so that str.replace can be computed), whether it is a class, the
\* classes it is a subclass of (itself included), the classes the object itself
\* is an instance of, and its _declared_fields.
Member(name, isclass, mro, declared) ==
    [name |-> name, isclass |-> isclass, mro |-> mro,
     instance_of |-> IF isclass THEN {"type", "object"} ELSE {"module", "object"},
     declared_fields |-> declared]

\* inspect.getmembers(connection), sorted by name.
ModuleMembers ==
    << Member(<<"AzureOpenAI", "Connection", "Schema">>, TRUE,
              {"AzureOpenAIConnectionSchema", "ConnectionSchema", "YamlFileSchema"},
              AzureOpenAIFields),
       Member(<<"Connection", "Schema">>, TRUE,
              {"ConnectionSchema", "YamlFileSchema"}, BaseFields),
       Member(<<"OpenAI", "Connection", "Schema">>, TRUE,
              {"OpenAIConnectionSchema", "ConnectionSchema", "YamlFileSchema"},
              OpenAIFields),
       Member(<<"StringTransformedEnum">>, TRUE, {"StringTransformedEnum"}, <<>>),
       Member(<<"YamlFile", "Schema">>, TRUE, {"YamlFileSchema"}, <<>>),
       Member(<<"fields">>, FALSE, {}, <<>>) >>

\* The registry: the connection types an entity can be loaded as, by discriminator.
TypeSchemas ==
    [t \in {"azure_open_ai", "open_ai"} |->
        IF t = "azure_open_ai" THEN AzureOpenAIFields ELSE OpenAIFields]

RegisteredTypes == DOMAIN TypeSchemas

\* The catalog name of each registered type.
TypeNames ==
    [t \in RegisteredTypes |->
        IF t = "azure_open_ai" THEN <<"AzureOpenAI", "Connection">>
        ELSE <<"OpenAI", "Connection">>]

FieldsOf(type) == Range(TypeSchemas[type])

\* The field names of each registered type by kind: those a load accepts (not
\* dump-only), the secret bucket, the plain bucket (configs: the non-secret
\* fields other than the record-level name, type and module) and the fields a
\* record must hold (non-optional, without default).
FieldSets ==
    [t \in RegisteredTypes |->
        [loadable |-> {f.name : f \in {g \in FieldsOf(t) : ~g.dump_only}},
         secret |-> {f.name : f \in {g \in FieldsOf(t) : g.secret}},
         plain |-> {f.name : f \in {g \in FieldsOf(t) : ~g.secret /\ ~g.dump_only}}
                      \ {"name", "type", "module"},
         required |-> {f.name : f \in {g \in FieldsOf(t) : g.required /\ ~g.has_default}}
                      \ {"type"}]]

LoadableFields(type) == FieldSets[type].loadable

SecretFields(type) == FieldSets[type].secret

PlainFields(type) == FieldSets[type].plain

RequiredFields(type) == FieldSets[type].required

\* ------------------------------------------------------------------ inputs

\* The connection names requests address.
Names == {"a", "b"}

\* The values a request body can give each key; "bogus" is declared by no schema.
KeyValues ==
    [k \in {"name", "type", "api_key", "api_base", "bogus"} |->
        CASE k = "name" -> Names
          [] k = "type" -> RegisteredTypes
          [] k = "api_key" -> {"k1", "k2"}
          [] k = "api_base" -> {"u1", "u2"}
          [] OTHER -> {"x"}]

\* Bodies that set exactly one key.
SingleBodies == UNION {{[j \in {k} |-> v] : v \in KeyValues[k]} : k \in DOMAIN KeyValues}

\* Complete payloads of a create request, one of them carrying a name of its own.
CreateBodies ==
    { [type |-> "azure_open_ai", api_key |-> "k1", api_base |-> "u1"],
      [type |-> "open_ai", api_key |-> "k2"],
      [type |-> "open_ai", api_key |-> "k1", name |-> "b"],
      [type |-> "azure_open_ai", api_key |-> "k1"] }

\* Partial payloads of an update request that set two keys.
PairBodies ==
    { [api_key |-> "k2", api_base |-> "u2"],
      [name |-> "b", api_base |-> "u2"] }

Bodies == {EmptyDict} \cup SingleBodies \cup CreateBodies \cup PairBodies

\* --------------------------------------------------------------- responses

OK == 200

\* The status validation errors of the entity loader and the store map to.
BadRequest == 400

\* handle_connection_not_found_exception: ConnectionNotFoundError maps to 404.
NotFound == 404

Result(status, s, out) == [status |-> status, store |-> s, out |-> out]

\* ------------------------------------------------- entities._connection

NoConnection ==
    [name |-> "", type |-> "", configs |-> EmptyDict, secrets |-> EmptyDict,
     raw_secrets |-> EmptyDict, created_date |-> 0, last_modified_date |-> 0]

\* _Connection._to_dict: the record-level name and type, the plain values and
\* the public secret values (none when the entity was read redacted).
to_dict(conn) ==
    [fields |-> Overlay([name |-> conn.name, type |-> conn.type],
                        Overlay(conn.configs, conn.secrets)),
     created_date |-> conn.created_date,
     last_modified_date |-> conn.last_modified_date]

\* _Connection._load(data, params_override): the overrides are laid over the
\* data, the schema is the one of the data's type, and the result is validated:
\* the type is registered, every key is declared by the schema and the
\* discriminator equals the type.  The un-scrubbed secrets (_secrets) start as a
\* copy of the loaded secrets.
load(data, params_override) ==
    LET merged == Overlay(params_override, data)
        type == IF "type" \in DOMAIN data THEN data["type"] ELSE ""
    IN  IF \/ type \notin RegisteredTypes
           \/ "name" \notin DOMAIN merged
        THEN [ok |-> FALSE, conn |-> NoConnection]
        ELSE IF \/ ~((DOMAIN merged) \subseteq LoadableFields(type))
                \/ merged["type"] # type
        THEN [ok |-> FALSE, conn |-> NoConnection]
        ELSE [ok |-> TRUE,
              conn |-> [name |-> merged["name"], type |-> type,
                        configs |-> Restrict(merged, PlainFields(type)),
                        secrets |-> Restrict(merged, SecretFields(type)),
                        raw_secrets |-> Restrict(merged, SecretFields(type)),
                        created_date |-> 0, last_modified_date |-> 0]]

\* ------------------------------------------ operations.ConnectionOperations

\* ConnectionOperations.get(name, with_secrets): the stored record as an entity;
\* its public secrets are empty unless with_secrets, its un-scrubbed secrets are
\* always the stored ones.
op_get(s, name, with_secrets) ==
    IF name \notin DOMAIN s
    THEN [found |-> FALSE, conn |-> NoConnection]
    ELSE [found |-> TRUE,
          conn |-> [name |-> name, type |-> s[name].type,
                    configs |-> s[name].configs,
                    secrets |-> IF with_secrets THEN s[name].secrets ELSE EmptyDict,
                    raw_secrets |-> s[name].secrets,
                    created_date |-> s[name].created_date,
                    last_modified_date |-> s[name].last_modified_date]]

\* ConnectionOperations.list(max_results, all_results): the possible results, each
\* a set of at most max_results stored names (all of them when all_results).
op_list(s, max_results, all_results) ==
    IF all_results \/ Cardinality(DOMAIN s) <= max_results
    THEN {DOMAIN s}
    ELSE {S \in SUBSET (DOMAIN s) : Cardinality(S) = max_results}

\* The record create_or_update writes for an entity at time t: the public secrets
\* laid over the un-scrubbed ones; created_date is kept when the name is stored.
row_of(s, t, conn) ==
    [type |-> conn.type, configs |-> conn.configs,
     secrets |-> Overlay(conn.secrets, conn.raw_secrets),
     created_date |-> IF conn.name \in DOMAIN s THEN s[conn.name].created_date ELSE t,
     last_modified_date |-> t]

\* Every non-optional field without a default is present.
complete(conn) ==
    RequiredFields(conn.type) \subseteq
        ((DOMAIN conn.configs) \cup (DOMAIN conn.secrets) \cup (DOMAIN conn.raw_secrets))

\* ConnectionOperations.create_or_update(connection): validates, writes the record
\* under the entity's own name whether or not it is stored already, and
\* returns the stored record read back redacted.
op_create_or_update(s, t, conn) ==
    IF ~complete(conn)
    THEN Result(BadRequest, s, {})
    ELSE LET s2 == [n \in (DOMAIN s) \cup {conn.name} |->
                       IF n = conn.name THEN row_of(s, t, conn) ELSE s[n]]
         IN  Result(OK, s2, {to_dict(op_get(s2, conn.name, FALSE).conn)})

\* ConnectionOperations.delete(name).
op_delete(s, name) ==
    IF name \notin DOMAIN s
    THEN Result(NotFound, s, {})
    ELSE Result(OK, [n \in (DOMAIN s) \ {name} |-> s[n]], {})

\* ------------------------------------------------- apis/connection.py

\* list_connection_field: the keys the list response is marshalled to.
list_connection_field ==
    {"name", "type", "module", "expiry_time", "created_date", "last_modified_date"}

marshal(d) ==
    [fields |-> Restrict(d.fields, list_connection_field),
     created_date |-> d.created_date,
     last_modified_date |-> d.last_modified_date]

\* ConnectionList.get: the possible responses to a list request.
ConnectionList_get(s, max_results, all_results) ==
    { Result(OK, s, {marshal(to_dict(op_get(s, n, FALSE).conn)) : n \in S}) :
        S \in op_list(s, max_results, all_results) }

\* Connection.get reading the connection with its secrets.
Connection_get_revealed(s, name) ==
    LET e == op_get(s, name, TRUE)
    IN  IF ~e.found THEN Result(NotFound, s, {})
        ELSE Result(OK, s, {to_dict(e.conn)})

\* Connection.get.
Connection_get(s, name) ==
    LET e == op_get(s, name, FALSE)
    IN  IF ~e.found THEN Result(NotFound, s, {})
        ELSE Result(OK, s, {to_dict(e.conn)})

\* Connection.post: the name of the route replaces any name of the body.
Connection_post(s, t, name, body) ==
    LET connection_data == Overlay([name |-> name], body)
        l == load(connection_data, EmptyDict)
    IN  IF ~l.ok THEN Result(BadRequest, s, {})
        ELSE op_create_or_update(s, t, l.conn)

\* Connection.put without the assignment of the existing un-scrubbed secrets.
put_existing_no_carry(s, t, existing_connection, connection_dict) ==
    LET l == load(to_dict(existing_connection).fields, connection_dict)
    IN  IF ~l.ok THEN Result(BadRequest, s, {})
        ELSE op_create_or_update(s, t, l.conn)

\* Connection.put updating the existing entity's configs from the body directly,
\* without loading it through the schema.
put_existing_unvalidated(s, t, existing_connection, connection_dict) ==
    op_create_or_update(s, t,
        [existing_connection EXCEPT !.configs = Overlay(connection_dict, @)])

\* Connection.put from the loaded existing connection on: the entity is loaded
\* from the existing one's dictionary with the body as overrides, takes over the
\* existing un-scrubbed secrets and is written.
put_existing(s, t, existing_connection, connection_dict) ==
    LET l == load(to_dict(existing_connection).fields, connection_dict)
    IN  IF ~l.ok THEN Result(BadRequest, s, {})
        ELSE op_create_or_update(s, t,
                [l.conn EXCEPT !.raw_secrets = existing_connection.raw_secrets])

\* Connection.put treating an absent name as a create of it.
Connection_put_or_create(s, t, name, connection_dict) ==
    LET e == op_get(s, name, FALSE)
    IN  IF ~e.found THEN Connection_post(s, t, name, connection_dict)
        ELSE put_existing(s, t, e.conn, connection_dict)

\* Connection.put.
Connection_put(s, t, name, connection_dict) ==
    LET e == op_get(s, name, FALSE)
    IN  IF ~e.found THEN Result(NotFound, s, {})
        ELSE put_existing(s, t, e.conn, connection_dict)

\* Connection.delete.
Connection_delete(s, name) == op_delete(s, name)

\* ConnectionWithSecret.get.
ConnectionWithSecret_get(s, name) ==
    LET e == op_get(s, name, TRUE)
    IN  IF ~e.found THEN Result(NotFound, s, {})
        ELSE Result(OK, s, {to_dict(e.conn)})

hide_connection_fields == {"module"}

\* bool(field.default): a missing or empty default is false.
truthy_default(field) == field.has_default /\ field.default # ""

\* The catalog entry of one declared field.
config_of(field) ==
    LET configs == [name |-> field.name, optional |-> field.allow_none]
    IN  IF field.name = "type"
        THEN Overlay([default |-> field.allowed_values[1]], configs)
        ELSE IF truthy_default(field)
        THEN Overlay([default |-> field.default], configs)
        ELSE configs

RECURSIVE config_specs_of(_)
config_specs_of(declared) ==
    IF declared = <<>> THEN <<>>
    ELSE LET field == Head(declared)
             rest == config_specs_of(Tail(declared))
         IN  IF ~field.dump_only /\ field.name \notin hide_connection_fields
             THEN <<config_of(field)>> \o rest
             ELSE rest

NotSchemaWord(w) == w # "Schema"

\* The members ConnectionSpecs.get keeps: classes that are subclasses of
\* ConnectionSchema and are not instances of it.
is_spec_member(obj) ==
    /\ obj.isclass
    /\ "ConnectionSchema" \in obj.mro
    /\ "ConnectionSchema" \notin obj.instance_of

RECURSIVE connection_specs_of(_)
connection_specs_of(members) ==
    IF members = <<>> THEN <<>>
    ELSE LET obj == Head(members)
             rest == connection_specs_of(Tail(members))
         IN  IF is_spec_member(obj)
             THEN << [connection_type |-> SelectSeq(obj.name, NotSchemaWord),
                      config_specs |-> config_specs_of(obj.declared_fields)] >> \o rest
             ELSE rest

\* ConnectionSpecs.get.
ConnectionSpecs_get == connection_specs_of(ModuleMembers)

\* ------------------------------------------------------------------- state

\* The request threads of the service.
Threads == {1, 2}

VARIABLES
    store,    \* the connection store: name -> stored record
    now,      \* the clock create_or_update stamps records with
    last,     \* the request served last: operation, name, body and status
    out,      \* the body of the last response: a set of connection dictionaries
    catalog,  \* the last response of the specs route
    pc,       \* where each request thread is in Connection.put
    loc       \* the locals of each request thread in Connection.put

vars == <<store, now, last, out, catalog, pc, loc>>

Request(op, name, body, status) ==
    [op |-> op, name |-> name, body |-> body, status |-> status]

NoLocals == [name |-> "", body |-> EmptyDict, existing |-> NoConnection, status |-> 0]

Init ==
    /\ store = [n \in {} |-> NoConnection]
    /\ now = 1
    /\ last = Request("none", "", EmptyDict, OK)
    /\ out = {}
    /\ catalog = <<>>
    /\ pc = [t \in Threads |-> "idle"]
    /\ loc = [t \in Threads |-> NoLocals]

\* A request that reads the store.
Serve(op, name, r) ==
    /\ last' = Request(op, name, EmptyDict, r.status)
    /\ out' = r.out
    /\ store' = r.store
    /\ UNCHANGED <<now, catalog, pc, loc>>

\* A request that may write the store at the current time.
ServeWrite(op, name, body, r) ==
    /\ last' = Request(op, name, body, r.status)
    /\ out' = r.out
    /\ store' = r.store
    /\ now' = IF r.status = OK THEN now + 1 ELSE now
    /\ UNCHANGED <<catalog, pc, loc>>

\* request.args.get("max_results", default=50, type=int): the default when the
\* argument is not given.
DefaultMaxResults == 50

\* The all_results arguments of a list request.
AllResultsArgs == {"absent", "", "true", "false"}

\* request.args.get("all_results", default=False, type=bool): bool of the
\* argument's text, which is true of every non-empty text.
all_results_of(arg) == arg \notin {"absent", ""}

List ==
    \E max_results \in (0..MaxResults) \cup {DefaultMaxResults}, arg \in AllResultsArgs :
        \E r \in ConnectionList_get(store, max_results, all_results_of(arg)) :
            Serve("list", "", r)

Get == \E name \in Names : Serve("get", name, Connection_get(store, name))

ListSecrets ==
    \E name \in Names : Serve("listsecrets", name, ConnectionWithSecret_get(store, name))

Post ==
    /\ now <= MaxClock
    /\ \E name \in Names, body \in Bodies :
          ServeWrite("post", name, body, Connection_post(store, now, name, body))

Put ==
    /\ now <= MaxClock
    /\ \E name \in Names, body \in Bodies :
          ServeWrite("put", name, body, Connection_put(store, now, name, body))

Delete == \E name \in Names : Serve("delete", name, Connection_delete(store, name))

Specs ==
    /\ catalog' = ConnectionSpecs_get
    /\ last' = Request("specs", "", EmptyDict, OK)
    /\ out' = {}
    /\ UNCHANGED <<store, now, pc, loc>>

Next == List \/ Get \/ ListSecrets \/ Post \/ Put \/ Delete \/ Specs

Spec == Init /\ [][Next]_vars

\* ------------------------------------------- two interleaved update requests

\* The store after one create: the state the interleaved updates start from.
ConcInit ==
    /\ store = Connection_post([n \in {} |-> NoConnection], 1, "a",
                   [type |-> "azure_open_ai", api_key |-> "k1", api_base |-> "u1"]).store
    /\ now = 2
    /\ last = Request("none", "", EmptyDict, OK)
    /\ out = {}
    /\ catalog = <<>>
    /\ pc = [t \in Threads |-> "idle"]
    /\ loc = [t \in Threads |-> NoLocals]

\* Connection.put up to the read of the existing connection.
PutLoad(t) ==
    /\ pc[t] = "idle"
    /\ \E name \in Names, body \in Bodies :
          LET e == op_get(store, name, FALSE)
          IN  /\ loc' = [loc EXCEPT ![t] =
                            [name |-> name, body |-> body, existing |-> e.conn,
                             status |-> IF e.found THEN 0 ELSE NotFound]]
              /\ pc' = [pc EXCEPT ![t] = IF e.found THEN "loaded" ELSE "done"]
    /\ UNCHANGED <<store, now, last, out, catalog>>

\* Connection.put from the load of the merged entity to the write.
PutPersist(t) ==
    /\ pc[t] = "loaded"
    /\ now <= MaxClock
    /\ LET r == put_existing(store, now, loc[t].existing, loc[t].body)
       IN  /\ store' = r.store
           /\ now' = IF r.status = OK THEN now + 1 ELSE now
           /\ loc' = [loc EXCEPT ![t].status = r.status]
           /\ pc' = [pc EXCEPT ![t] = "done"]
    /\ UNCHANGED <<last, out, catalog>>

ConcNext == \E t \in Threads : PutLoad(t) \/ PutPersist(t)

ConcSpec == ConcInit /\ [][ConcNext]_vars

\* ------------------------------------------------------------------ claims

\* The stored value of a schema field of a record, "" when it has none.
Stored(row, k) ==
    IF k = "type" THEN row.type
    ELSE IF k \in DOMAIN row.secrets THEN row.secrets[k]
    ELSE IF k \in DOMAIN row.configs THEN row.configs[k]
    ELSE ""

\* The body names only loadable fields of the record's type and keeps its type.
Acceptable(body, row) ==
    /\ (DOMAIN body) \subseteq LoadableFields(row.type)
    /\ "type" \in DOMAIN body => body["type"] = row.type

\* The request served by the step is an update of a stored name.
UpdateOfStored == last'.op = "put" /\ last'.name \in DOMAIN store

\* C1: an update of a stored record whose body sets no secret field leaves every
\* secret of the addressed record exactly as it was, and succeeds when the body
\* is otherwise acceptable to the record's schema.
C1_SecretPreservation ==
    [][ (UpdateOfStored /\ (DOMAIN last'.body) \cap SecretFields(store[last'.name].type) = {})
        => /\ last'.name \in DOMAIN store'
           /\ store'[last'.name].secrets = store[last'.name].secrets
           /\ Acceptable(last'.body, store[last'.name]) => last'.status = OK ]_vars

\* C1 witness: a successful update that set only the endpoint of a record that
\* holds a secret.
C1_Witness ==
    /\ last.op = "put" /\ last.status = OK
    /\ last.body = [api_base |-> "u2"]
    /\ last.name \in DOMAIN store
    /\ store[last.name].configs["api_base"] = "u2"
    /\ store[last.name].secrets["api_key"] \in {"k1", "k2"}

\* C2: after a successful update every schema field the body names holds the
\* body's value in the record stored under the addressed name.
C2_OverridesStored ==
    [][ (UpdateOfStored /\ last'.status = OK)
        => /\ last'.name \in DOMAIN store'
           /\ \A k \in (DOMAIN last'.body) \ {"name"} :
                 Stored(store'[last'.name], k) = last'.body[k] ]_vars

\* C3: every response other than that of the secrets route holds no secret key
\* and no secret value of the record it describes; the secrets route returns
\* exactly the stored secret bucket.
C3_Redaction ==
    /\ last.op # "listsecrets" =>
          \A d \in out :
             /\ d.fields["name"] \in DOMAIN store
             /\ (DOMAIN d.fields) \cap (DOMAIN store[d.fields["name"]].secrets) = {}
             /\ \A k \in DOMAIN d.fields :
                   d.fields[k] \notin Range(store[d.fields["name"]].secrets)
    /\ (last.op = "listsecrets" /\ last.status = OK) =>
          /\ Cardinality(out) = 1
          /\ \A d \in out :
                /\ d.fields["name"] = last.name
                /\ Restrict(d.fields, SecretFields(store[last.name].type))
                      = store[last.name].secrets

\* C3 witness: a redacted get of a record that holds a secret.
C3_Witness ==
    /\ last.op = "get" /\ last.status = OK
    /\ out # {}
    /\ store[last.name].secrets # EmptyDict

\* C4: a create of a stored name fails and leaves the stored record (its type,
\* plain values, secret values and timestamps) as it was.
C4_CreateIsStrict ==
    [][ (last'.op = "post" /\ last'.name \in DOMAIN store)
        => (last'.status # OK /\ store' = store) ]_vars

C6_NameImmutable ==
    [][ last'.op = "put"
        => /\ DOMAIN store' = DOMAIN store
           /\ \A n \in (DOMAIN store) \ {last'.name} : store'[n] = store[n] ]_vars

\* C7: a successful create leaves created_date = last_modified_date; a
\* successful update strictly increases last_modified_date of the addressed
\* record and keeps its created_date; a failed request changes neither.
C7_Timestamps ==
    [][ /\ (last'.op = "post" /\ last'.status = OK)
           => /\ last'.name \in DOMAIN store'
              /\ store'[last'.name].created_date = store'[last'.name].last_modified_date
        /\ (UpdateOfStored /\ last'.status = OK)
           => /\ last'.name \in DOMAIN store'
              /\ store'[last'.name].last_modified_date > store[last'.name].last_modified_date
              /\ store'[last'.name].created_date = store[last'.name].created_date
        /\ (last'.op \in {"post", "put"} /\ last'.status # OK) => store' = store ]_vars

\* Both update requests completed successfully on one name with disjoint bodies
\* that set plain or secret fields.
BothUpdated ==
    /\ \A t \in Threads : pc[t] = "done" /\ loc[t].status = OK
    /\ loc[1].name = loc[2].name
    /\ (DOMAIN loc[1].body) \cap (DOMAIN loc[2].body) = {}
    /\ \A t \in Threads :
          loc[t].body # EmptyDict /\ (DOMAIN loc[t].body) \cap {"name", "type"} = {}

\* C8: once two interleaved updates of one name with disjoint bodies have both
\* succeeded, the stored record holds the overrides of both.
C8_NoLostUpdate ==
    BothUpdated =>
        \A t \in Threads : \A k \in DOMAIN loc[t].body :
            Stored(store[loc[1].name], k) = loc[t].body[k]

\* The value the type field of each registered type's schema allows.
Discriminator ==
    [t \in RegisteredTypes |->
        (CHOOSE f \in FieldsOf(t) : f.name = "type").allowed_values[1]]

\* A stored record is valid for its type's schema: its type is registered and is
\* the discriminator of its schema, its keys are declared and sit in the right
\* bucket, and its required fields are present.
ValidRow(row) ==
    /\ row.type \in RegisteredTypes
    /\ Discriminator[row.type] = row.type
    /\ (DOMAIN row.configs) \subseteq PlainFields(row.type)
    /\ (DOMAIN row.secrets) \subseteq SecretFields(row.type)
    /\ RequiredFields(row.type) \subseteq ((DOMAIN row.configs) \cup (DOMAIN row.secrets))

\* C9: every record of the store is valid for its type's schema after every
\* request; an update whose body names an undeclared field or another type
\* fails, and a failed create or update leaves the store as it was.
C9_SchemaValidity ==
    [][ /\ \A n \in DOMAIN store' : ValidRow(store'[n])
        /\ (UpdateOfStored /\ ~Acceptable(last'.body, store[last'.name]))
           => last'.status = BadRequest
        /\ (last'.op \in {"post", "put"} /\ last'.status # OK) => store' = store ]_vars

\* C9 witness: an update naming an undeclared field of a stored record failed.
C9_Witness ==
    /\ last.op = "put" /\ last.status = BadRequest
    /\ last.name \in DOMAIN store
    /\ "bogus" \in DOMAIN last.body

\* The catalog entry the schema of a registered type declares: every declared
\* field that is neither dump-only nor the module, with its optionality, its
\* declared default, and for the discriminator the type's own value.
DeclaredConfig(f, t) ==
    LET base == [name |-> f.name, optional |-> f.allow_none]
    IN  IF f.name = "type" THEN Overlay([default |-> t], base)
        ELSE IF f.has_default THEN Overlay([default |-> f.default], base)
        ELSE base

DeclaredConfigs(t) ==
    {DeclaredConfig(f, t) : f \in {g \in FieldsOf(t) : ~g.dump_only /\ g.name # "module"}}

\* C10: the catalog holds exactly one entry per registered type and none for
\* anything else, each listing the declared non-internal fields of its type.
C10_CatalogExact ==
    catalog # <<>> =>
        /\ Len(catalog) = Cardinality(RegisteredTypes)
        /\ {e.connection_type : e \in Range(catalog)} = Range(TypeNames)
        /\ \A e \in Range(catalog) : \A t \in RegisteredTypes :
              e.connection_type = TypeNames[t] =>
                  /\ Range(e.config_specs) = DeclaredConfigs(t)
                  /\ Len(e.config_specs) = Cardinality(DeclaredConfigs(t))

====
